---- MODULE Spec2Model ----
(***************************************************************************)
(* hermaion FileConnector (connectors.py) and its two exception classes    *)
(* (exceptions.py).                                                        *)
(*                                                                         *)
(* Python strings that the code inspects (type, path, the exception       *)
(* messages) are sequences of one-character strings, so that endswith,     *)
(* '.' + type and ','.join(...) are computed.  A literal segment of a      *)
(* message is kept as one element.  Dictionaries are sequences of          *)
(* <<key, value>> pairs in insertion order.                                *)
(*                                                                         *)
(* The lazy dataframe engine (polars) is outside the repository; its entry *)
(* points are modelled by what the calls of connectors.py rely on: a scan  *)
(* names a reader and a path and fails on a missing file, select / rename  *)
(* / cast append a step to the plan, and the steps are resolved only when  *)
(* the plan is executed.                                                   *)
(***************************************************************************)
EXTENDS Integers, Sequences, FiniteSets, TLC

VARIABLES conn, pre, last, log

vars == <<conn, pre, last, log>>

(***************************************************************************)
(* Bounds of the exploration.                                              *)
(***************************************************************************)
\* longest chain of plan steps that select_columns may build
MaxOps == 2
\* rows held by every file of the modelled file system
FileRows == 2

(***************************************************************************)
(* Strings.                                                                *)
(***************************************************************************)
csv == <<"c", "s", "v">>
parquet == <<"p", "a", "r", "q", "u", "e", "t">>
json == <<"j", "s", "o", "n">>
CSV_upper == <<"C", "S", "V">>
EmptyStr == <<>>

a_csv == <<"a", ".", "c", "s", "v">>
b_csv == <<"b", ".", "c", "s", "v">>
m_csv == <<"m", ".", "c", "s", "v">>
a_parquet == <<"a", ".", "p", "a", "r", "q", "u", "e", "t">>
a_json == <<"a", ".", "j", "s", "o", "n">>
acsv == <<"a", "c", "s", "v">>
a_CSV == <<"a", ".", "C", "S", "V">>

\* str.endswith
EndsWith(s, suffix) ==
    /\ Len(suffix) <= Len(s)
    /\ SubSeq(s, Len(s) - Len(suffix) + 1, Len(s)) = suffix

\* sub in s
IsSubstring(sub, s) ==
    \E i \in 0..(Len(s) - Len(sub)) : SubSeq(s, i + 1, i + Len(sub)) = sub

\* sep.join(parts)
RECURSIVE Join(_, _)
Join(sep, parts) ==
    IF Len(parts) = 0 THEN <<>>
    ELSE IF Len(parts) = 1 THEN parts[1]
    ELSE parts[1] \o sep \o Join(sep, Tail(parts))

(***************************************************************************)
(* Dictionaries.                                                           *)
(***************************************************************************)
\* dict.keys(), in insertion order
Keys(d) == [i \in 1..Len(d) |-> d[i][1]]

KeySet(d) == {d[i][1] : i \in 1..Len(d)}

\* dict.get(k): the value, or None
Get(d, k) ==
    IF k \in KeySet(d)
    THEN d[CHOOSE i \in 1..Len(d) : d[i][1] = k][2]
    ELSE "None"

\* connectors.py
SCAN_METHODS == << <<csv, "scan_csv">>, <<parquet, "scan_parquet">> >>

\* exceptions.py keeps its own copy
SCAN_METHODS_exceptions == << <<csv, "scan_csv">>, <<parquet, "scan_parquet">> >>

(***************************************************************************)
(* Exceptions.                                                             *)
(***************************************************************************)
NoExc == [cls |-> "None", message |-> <<>>]

FileTypeNotSupported ==
    [cls |-> "FileTypeNotSupported",
     message |-> <<"File type provided is not supported. Only ">>
                 \o Join(<<",">>, Keys(SCAN_METHODS_exceptions))
                 \o <<" are supported.">>]

ExtensionMissmatch ==
    [cls |-> "ExtensionMissmatch",
     message |-> <<"Provided file's extension and file type does not match.">>]

\* raised by the interpreter or by the engine, not by this repository
FileNotFoundError == [cls |-> "FileNotFoundError", message |-> <<>>]
AttributeError == [cls |-> "AttributeError", message |-> <<>>]
TypeError == [cls |-> "TypeError", message |-> <<>>]
ComputeError == [cls |-> "ComputeError", message |-> <<>>]

(***************************************************************************)
(* The file system the readers see.                                        *)
(***************************************************************************)
NoFile == [exists |-> FALSE, format |-> "none", schema |-> <<>>]

FileAt(path) ==
    CASE path = a_csv ->
           [exists |-> TRUE, format |-> "csv",
            schema |-> << <<"a", "Int64">>, <<"b", "Utf8">> >>]
      [] path = b_csv ->
           [exists |-> TRUE, format |-> "csv",
            schema |-> << <<"b", "Utf8">>, <<"c", "Int64">> >>]
      [] path = a_parquet ->
           [exists |-> TRUE, format |-> "parquet",
            schema |-> << <<"a", "Int64">>, <<"b", "Utf8">> >>]
      [] OTHER -> NoFile

(***************************************************************************)
(* The lazy engine: pl.scan_csv / pl.scan_parquet and pl.LazyFrame.        *)
(***************************************************************************)
NoPlan == [reader |-> "None", path |-> <<>>, ops |-> <<>>]

ReaderFormat(reader) ==
    IF reader = "scan_csv" THEN "csv"
    ELSE IF reader = "scan_parquet" THEN "parquet"
    ELSE "none"

\* self._reader(self.path): the reader looks at the file when it is called
Scan(reader, path) ==
    IF reader = "None"
    THEN [raised |-> TypeError, plan |-> NoPlan]
    ELSE IF ~FileAt(path).exists
    THEN [raised |-> FileNotFoundError, plan |-> NoPlan]
    ELSE IF FileAt(path).format # ReaderFormat(reader)
    THEN [raised |-> ComputeError, plan |-> NoPlan]
    ELSE [raised |-> NoExc,
          plan |-> [reader |-> reader, path |-> path, ops |-> <<>>]]

SelectStep(columns) == [op |-> "select", cols |-> columns, map |-> <<>>]
RenameStep(mapping) == [op |-> "rename", cols |-> <<>>, map |-> mapping]
CastStep(mapping) == [op |-> "cast", cols |-> <<>>, map |-> mapping]

\* LazyFrame.select / .rename / .cast: a new plan with one more step
Select(plan, columns) == [plan EXCEPT !.ops = Append(@, SelectStep(columns))]
Rename(plan, mapping) == [plan EXCEPT !.ops = Append(@, RenameStep(mapping))]
CastPlan(plan, mapping) == [plan EXCEPT !.ops = Append(@, CastStep(mapping))]

Distinct(s) == \A i, j \in 1..Len(s) : s[i] = s[j] => i = j

Unresolved == [ok |-> FALSE, schema |-> <<>>]

\* the schema one step produces from the schema it is given
ResolveStep(schema, step) ==
    IF step.op = "select"
    THEN IF (\A i \in 1..Len(step.cols) : step.cols[i] \in KeySet(schema))
            /\ Distinct(step.cols)
         THEN [ok |-> TRUE,
               schema |-> [i \in 1..Len(step.cols) |->
                             <<step.cols[i], Get(schema, step.cols[i])>>]]
         ELSE Unresolved
    ELSE IF step.op = "rename"
    THEN LET renamed == [i \in 1..Len(schema) |->
                           <<IF schema[i][1] \in KeySet(step.map)
                             THEN Get(step.map, schema[i][1])
                             ELSE schema[i][1],
                             schema[i][2]>>]
         IN IF KeySet(step.map) \subseteq KeySet(schema) /\ Distinct(Keys(renamed))
            THEN [ok |-> TRUE, schema |-> renamed]
            ELSE Unresolved
    ELSE IF KeySet(step.map) \subseteq KeySet(schema)
         THEN [ok |-> TRUE,
               schema |-> [i \in 1..Len(schema) |->
                             <<schema[i][1],
                               IF schema[i][1] \in KeySet(step.map)
                               THEN Get(step.map, schema[i][1])
                               ELSE schema[i][2]>>]]
         ELSE Unresolved

RECURSIVE ResolveFrom(_, _, _)
ResolveFrom(schema, ops, i) ==
    IF i > Len(ops) THEN [ok |-> TRUE, schema |-> schema]
    ELSE LET r == ResolveStep(schema, ops[i])
         IN IF r.ok THEN ResolveFrom(r.schema, ops, i + 1) ELSE Unresolved

\* LazyFrame.schema: the schema of the plan's result
PlanSchema(plan) ==
    IF ~FileAt(plan.path).exists THEN Unresolved
    ELSE ResolveFrom(FileAt(plan.path).schema, plan.ops, 1)

Min(x, y) == IF x < y THEN x ELSE y

\* LazyFrame.fetch(n_rows): the row counts a fetch may return
FetchRows(n_rows) == Min(n_rows, FileRows)..FileRows

(***************************************************************************)
(* FileConnector objects.  attrs holds the instance attributes that have   *)
(* been assigned; the other fields of the record are then meaningful.      *)
(***************************************************************************)
NewObject ==
    [attrs |-> {}, name |-> <<>>, type |-> <<>>, path |-> <<>>,
     reader |-> "None", plan |-> NoPlan, schema |-> <<>>, columns |-> <<>>]

NoRet == [kind |-> "None", plan |-> <<>>, columns |-> <<>>, rows |-> 0]

name_setter(self, value) ==
    [self |-> [self EXCEPT !.name = value, !.attrs = @ \cup {"_name"}],
     raised |-> NoExc]

\* type.setter without the registry check
type_setter_unchecked(self, value) ==
    [self |-> [self EXCEPT !.type = value, !.attrs = @ \cup {"_type"}],
     raised |-> NoExc]

type_setter(self, value) ==
    IF value \notin KeySet(SCAN_METHODS)
    THEN [self |-> self, raised |-> FileTypeNotSupported]
    ELSE [self |-> [self EXCEPT !.type = value, !.attrs = @ \cup {"_type"}],
          raised |-> NoExc]

\* path.setter comparing with the type alone, the '.' forgotten
path_setter_no_dot(self, value) ==
    IF "_type" \notin self.attrs
    THEN [self |-> self, raised |-> AttributeError]
    ELSE IF EndsWith(value, self.type)
    THEN [self |-> [self EXCEPT !.path = value, !.attrs = @ \cup {"_path"}],
          raised |-> NoExc]
    ELSE [self |-> self, raised |-> ExtensionMissmatch]

\* path.setter storing the value before it checks it
path_setter_store_first(self, value) ==
    IF "_type" \notin self.attrs
    THEN [self |-> self, raised |-> AttributeError]
    ELSE [self |-> [self EXCEPT !.path = value, !.attrs = @ \cup {"_path"}],
          raised |-> IF EndsWith(value, <<".">> \o self.type)
                     THEN NoExc ELSE ExtensionMissmatch]

path_setter(self, value) ==
    IF "_type" \notin self.attrs
    THEN [self |-> self, raised |-> AttributeError]
    ELSE IF EndsWith(value, <<".">> \o self.type)
    THEN [self |-> [self EXCEPT !.path = value, !.attrs = @ \cup {"_path"}],
          raised |-> NoExc]
    ELSE [self |-> self, raised |-> ExtensionMissmatch]

\* test_connection looking for the file
test_connection_checks_file(self) == FileAt(self.path).exists

test_connection(self) == TRUE

\* __post_init__
post_init(self) ==
    LET s1 == [self EXCEPT !.reader = Get(SCAN_METHODS, self.type),
                           !.attrs = @ \cup {"_reader"}]
        ok == test_connection(s1)
        tc == <<IF ok THEN "test_connection=True" ELSE "test_connection=False">>
        scan == Scan(s1.reader, s1.path)
        sch == PlanSchema(scan.plan)
    IN IF ~ok
       THEN [self |-> s1, raised |-> NoExc, log |-> tc]
       ELSE IF scan.raised # NoExc
       THEN [self |-> s1, raised |-> scan.raised, log |-> tc \o <<"_reader">>]
       ELSE IF ~sch.ok
       THEN [self |-> [s1 EXCEPT !.plan = scan.plan,
                                 !.attrs = @ \cup {"_execution_plan"}],
             raised |-> ComputeError, log |-> tc \o <<"_reader", "schema">>]
       ELSE [self |-> [s1 EXCEPT !.plan = scan.plan,
                                 !.schema = sch.schema,
                                 !.columns = Keys(sch.schema),
                                 !.attrs = @ \cup {"_execution_plan", "_schema",
                                                   "_columns"}],
             raised |-> NoExc,
             log |-> tc \o <<"_reader", "schema", "columns">>]

\* path declared before type
FieldOrder_path_first == <<"name", "path", "type">>

\* the dataclass fields with init=True, in declaration order
FieldOrder == <<"name", "type", "path">>

SetField(self, f, value) ==
    IF f = "name" THEN name_setter(self, value)
    ELSE IF f = "type" THEN type_setter(self, value)
    ELSE path_setter(self, value)

\* the generated __init__ assigns the fields in declaration order
RECURSIVE InitFields(_, _, _, _)
InitFields(self, args, i, done) ==
    IF i > Len(FieldOrder) THEN [self |-> self, raised |-> NoExc, log |-> done]
    ELSE LET f == FieldOrder[i]
             r == SetField(self, f, args[f])
         IN IF r.raised # NoExc
            THEN [self |-> r.self, raised |-> r.raised,
                  log |-> Append(done, f \o ".setter")]
            ELSE InitFields(r.self, args, i + 1, Append(done, f \o ".setter"))

\* FileConnector(name, type, path)
FileConnector(name, type, path) ==
    LET r == InitFields(NewObject, [name |-> name, type |-> type, path |-> path],
                        1, <<>>)
        p == post_init(r.self)
    IN IF r.raised # NoExc THEN r
       ELSE [self |-> p.self, raised |-> p.raised, log |-> r.log \o p.log]

(***************************************************************************)
(* Methods.  Each yields the object after the call, the exception raised   *)
(* (NoExc when the call returns) and the value returned.                   *)
(***************************************************************************)
LazyFrame(plan) == [kind |-> "LazyFrame", plan |-> <<plan>>, columns |-> <<>>, rows |-> 0]

DataFrame(columns, rows) ==
    [kind |-> "DataFrame", plan |-> <<>>, columns |-> columns, rows |-> rows]

Raise(self, exc) == [self |-> self, raised |-> exc, ret |-> NoRet]

\* rows is the number of rows the engine's fetch hands back
show_sample(self, n_rows, rows) ==
    IF "_execution_plan" \notin self.attrs THEN Raise(self, AttributeError)
    ELSE IF ~PlanSchema(self.plan).ok THEN Raise(self, ComputeError)
    ELSE [self |-> self, raised |-> NoExc,
          ret |-> DataFrame(Keys(PlanSchema(self.plan).schema), rows)]

\* select_columns re-opening the source as rename_columns and cast do
select_columns_reopen(self, columns) ==
    LET scan == Scan(self.reader, self.path)
    IN IF scan.raised # NoExc THEN Raise(self, scan.raised)
       ELSE [self |-> [self EXCEPT !.plan = Select(scan.plan, columns),
                                   !.attrs = @ \cup {"_execution_plan"}],
             raised |-> NoExc, ret |-> NoRet]

select_columns(self, columns) ==
    IF "_execution_plan" \notin self.attrs THEN Raise(self, AttributeError)
    ELSE [self |-> [self EXCEPT !.plan = Select(self.plan, columns)],
          raised |-> NoExc, ret |-> NoRet]

\* rename_columns composing onto the stored plan as select_columns does
rename_columns_compose(self, new_names) ==
    IF "_execution_plan" \notin self.attrs THEN Raise(self, AttributeError)
    ELSE [self |-> [self EXCEPT !.plan = Rename(self.plan, new_names)],
          raised |-> NoExc, ret |-> NoRet]

\* rename_columns re-deriving the cached schema and columns
rename_columns_refresh(self, new_names) ==
    LET scan == Scan(self.reader, self.path)
        plan == Rename(scan.plan, new_names)
        sch == PlanSchema(plan)
    IN IF scan.raised # NoExc THEN Raise(self, scan.raised)
       ELSE [self |-> [self EXCEPT !.plan = plan,
                                   !.schema = IF sch.ok THEN sch.schema ELSE @,
                                   !.columns = IF sch.ok THEN Keys(sch.schema) ELSE @,
                                   !.attrs = @ \cup {"_execution_plan"}],
             raised |-> NoExc, ret |-> NoRet]

rename_columns(self, new_names) ==
    LET scan == Scan(self.reader, self.path)
    IN IF scan.raised # NoExc THEN Raise(self, scan.raised)
       ELSE [self |-> [self EXCEPT !.plan = Rename(scan.plan, new_names),
                                   !.attrs = @ \cup {"_execution_plan"}],
             raised |-> NoExc, ret |-> NoRet]

cast(self, new_cast) ==
    LET scan == Scan(self.reader, self.path)
    IN IF scan.raised # NoExc THEN Raise(self, scan.raised)
       ELSE [self |-> [self EXCEPT !.plan = CastPlan(scan.plan, new_cast),
                                   !.attrs = @ \cup {"_execution_plan"}],
             raised |-> NoExc, ret |-> NoRet]

get_output(self) ==
    IF "_execution_plan" \notin self.attrs THEN Raise(self, AttributeError)
    ELSE [self |-> self, raised |-> NoExc, ret |-> LazyFrame(self.plan)]

(***************************************************************************)
(* The values the caller passes.                                           *)
(***************************************************************************)
DefaultNRows == 100

NameValues == {<<"n">>, <<"m">>}
TypeValues == {csv, parquet, json, CSV_upper, EmptyStr}
PathValues == {a_csv, b_csv, m_csv, a_parquet, a_json, acsv, a_CSV, EmptyStr}
ColumnArgs == {<<"a">>, <<"b", "a">>, <<"x">>, <<"a", "a">>}
RenameArgs == {<< <<"a", "x">> >>, << <<"c", "a">> >>}
CastArgs == {<< <<"a", "Utf8">> >>, << <<"x", "Int64">> >>}
NRowsArgs == {1, DefaultNRows}

NoArgs ==
    [name |-> <<>>, type |-> <<>>, path |-> <<>>, columns |-> <<>>,
     mapping |-> <<>>, n_rows |-> 0]

Called(op, args, r) == [op |-> op, args |-> args, raised |-> r.raised, ret |-> r.ret]

(***************************************************************************)
(* The state: conn holds the connector the caller has (none before a       *)
(* construction succeeds), pre is conn as it was before the last call,     *)
(* last is the last call with its outcome, log the steps that call took.   *)
(***************************************************************************)
Init ==
    /\ conn = <<>>
    /\ pre = <<>>
    /\ last = [op |-> "none", args |-> NoArgs, raised |-> NoExc, ret |-> NoRet]
    /\ log = <<>>

Construct ==
    \E name \in NameValues, type \in TypeValues, path \in PathValues :
        LET r == FileConnector(name, type, path)
        IN /\ conn = <<>>
           /\ conn' = IF r.raised = NoExc THEN <<r.self>> ELSE conn
           /\ pre' = conn
           /\ last' = [op |-> "construct",
                       args |-> [NoArgs EXCEPT !.name = name, !.type = type,
                                               !.path = path],
                       raised |-> r.raised,
                       ret |-> NoRet]
           /\ log' = r.log

AssignName ==
    \E value \in NameValues :
        LET r == name_setter(conn[1], value)
        IN /\ conn # <<>>
           /\ conn' = <<r.self>>
           /\ pre' = conn
           /\ last' = [op |-> "name", args |-> [NoArgs EXCEPT !.name = value],
                       raised |-> r.raised, ret |-> NoRet]
           /\ log' = <<"name.setter">>

AssignType ==
    \E value \in TypeValues :
        LET r == type_setter(conn[1], value)
        IN /\ conn # <<>>
           /\ conn' = <<r.self>>
           /\ pre' = conn
           /\ last' = [op |-> "type", args |-> [NoArgs EXCEPT !.type = value],
                       raised |-> r.raised, ret |-> NoRet]
           /\ log' = <<"type.setter">>

AssignPath ==
    \E value \in PathValues :
        LET r == path_setter(conn[1], value)
        IN /\ conn # <<>>
           /\ conn' = <<r.self>>
           /\ pre' = conn
           /\ last' = [op |-> "path", args |-> [NoArgs EXCEPT !.path = value],
                       raised |-> r.raised, ret |-> NoRet]
           /\ log' = <<"path.setter">>

ShowSample ==
    \E n_rows \in NRowsArgs : \E rows \in FetchRows(n_rows) :
        LET r == show_sample(conn[1], n_rows, rows)
        IN /\ conn # <<>>
           /\ conn' = <<r.self>>
           /\ pre' = conn
           /\ last' = Called("show_sample", [NoArgs EXCEPT !.n_rows = n_rows], r)
           /\ log' = <<"fetch">>

SelectColumns ==
    \E columns \in ColumnArgs :
        LET r == select_columns(conn[1], columns)
        IN /\ conn # <<>>
           /\ Len(conn[1].plan.ops) < MaxOps
           /\ conn' = <<r.self>>
           /\ pre' = conn
           /\ last' = Called("select_columns", [NoArgs EXCEPT !.columns = columns], r)
           /\ log' = <<"select">>

RenameColumns ==
    \E new_names \in RenameArgs :
        LET r == rename_columns(conn[1], new_names)
        IN /\ conn # <<>>
           /\ conn' = <<r.self>>
           /\ pre' = conn
           /\ last' = Called("rename_columns", [NoArgs EXCEPT !.mapping = new_names], r)
           /\ log' = <<"_reader", "rename">>

Cast ==
    \E new_cast \in CastArgs :
        LET r == cast(conn[1], new_cast)
        IN /\ conn # <<>>
           /\ conn' = <<r.self>>
           /\ pre' = conn
           /\ last' = Called("cast", [NoArgs EXCEPT !.mapping = new_cast], r)
           /\ log' = <<"_reader", "cast">>

GetOutput ==
    LET r == get_output(conn[1])
    IN /\ conn # <<>>
       /\ conn' = <<r.self>>
       /\ pre' = conn
       /\ last' = Called("get_output", NoArgs, r)
       /\ log' = <<"get_output">>

Next ==
    \/ Construct
    \/ AssignName
    \/ AssignType
    \/ AssignPath
    \/ ShowSample
    \/ SelectColumns
    \/ RenameColumns
    \/ Cast
    \/ GetOutput

Spec == Init /\ [][Next]_vars

(***************************************************************************)
(* Properties.                                                             *)
(***************************************************************************)
Supported == {csv, parquet}

Dot(type) == <<".">> \o type

Logged(e) == \E i \in 1..Len(log) : log[i] = e

LoggedBefore(e, f) == \E i, j \in 1..Len(log) : i < j /\ log[i] = e /\ log[j] = f

Returned == last.raised = NoExc

PlanMutators == {"select_columns", "rename_columns", "cast"}

\* C1: constructing with, or assigning, a type other than 'csv' and 'parquet'
\* raises FileTypeNotSupported, and the message names every supported type.
C1_UnsupportedTypeRaises ==
    (last.op \in {"construct", "type"} /\ last.args.type \notin Supported) =>
        /\ last.raised.cls = "FileTypeNotSupported"
        /\ \A t \in Supported : IsSubstring(t, last.raised.message)
        /\ conn = pre

C1_Witness ==
    /\ last.op = "type"
    /\ last.args.type = json
    /\ conn # <<>>
    /\ last.raised.cls = "FileTypeNotSupported"

\* C2: with a valid type, a path that does not end with '.' + type raises
\* ExtensionMissmatch in construction and in assignment; a path that does end
\* with it is accepted, and stored in the connector.
C2_PathExtension ==
    /\ (last.op = "construct" /\ last.args.type \in Supported) =>
          IF EndsWith(last.args.path, Dot(last.args.type))
          THEN /\ last.raised.cls # "ExtensionMissmatch"
               /\ Returned => conn # <<>> /\ conn[1].path = last.args.path
          ELSE last.raised = ExtensionMissmatch /\ conn = <<>>
    /\ last.op = "path" =>
          IF EndsWith(last.args.path, Dot(pre[1].type))
          THEN Returned /\ conn[1].path = last.args.path
          ELSE last.raised = ExtensionMissmatch /\ conn[1].path = pre[1].path

C2_Witness ==
    /\ last.op = "path"
    /\ pre[1].type = csv
    /\ last.args.path = acsv
    /\ last.raised = ExtensionMissmatch

\* C3: in every state of a constructed connector its type is a supported
\* format and its path ends with '.' + its type.
C3_TypePathInvariant ==
    conn # <<>> =>
        /\ conn[1].type \in Supported
        /\ EndsWith(conn[1].path, Dot(conn[1].type))

\* C4: after rename_columns(m) (cast(m)) the stored plan is a fresh scan of
\* path with that rename (cast) as its only step, whatever the plan was before.
C4_RenameCastReopen ==
    /\ (last.op = "rename_columns" /\ Returned) =>
          conn[1].plan = [reader |-> pre[1].reader, path |-> pre[1].path,
                          ops |-> <<[op |-> "rename", cols |-> <<>>,
                                     map |-> last.args.mapping]>>]
    /\ (last.op = "cast" /\ Returned) =>
          conn[1].plan = [reader |-> pre[1].reader, path |-> pre[1].path,
                          ops |-> <<[op |-> "cast", cols |-> <<>>,
                                     map |-> last.args.mapping]>>]

C4_Witness ==
    /\ last.op = "rename_columns"
    /\ Returned
    /\ Len(pre[1].plan.ops) = 2
    /\ pre[1].plan.ops[1].op = "cast"
    /\ pre[1].plan.ops[2].op = "select"
    /\ Len(conn[1].plan.ops) = 1

\* C5: select_columns(cols) keeps the stored plan's source and steps and adds
\* a projection on cols as the last step; the plan, when it can be executed,
\* yields exactly the columns of cols in that order.
C5_SelectComposes ==
    (last.op = "select_columns" /\ Returned) =>
        /\ conn[1].plan.reader = pre[1].plan.reader
        /\ conn[1].plan.path = pre[1].plan.path
        /\ conn[1].plan.ops =
              pre[1].plan.ops \o <<[op |-> "select", cols |-> last.args.columns,
                                    map |-> <<>>]>>
        /\ PlanSchema(conn[1].plan).ok =>
              Keys(PlanSchema(conn[1].plan).schema) = last.args.columns

C5_Witness ==
    /\ last.op = "select_columns"
    /\ Returned
    /\ Len(pre[1].plan.ops) = 1
    /\ pre[1].plan.ops[1].op = "rename"
    /\ last.args.columns = <<"x">>
    /\ PlanSchema(conn[1].plan).ok

\* C6: schema and columns are those of the initial scan made by the
\* construction, and select_columns, rename_columns, cast, show_sample and
\* get_output leave them as they were.
C6_SchemaFrozen ==
    /\ (last.op = "construct" /\ Returned) =>
          /\ conn[1].schema = FileAt(last.args.path).schema
          /\ conn[1].columns = Keys(FileAt(last.args.path).schema)
    /\ last.op \in PlanMutators \cup {"show_sample", "get_output"} =>
          /\ conn[1].schema = pre[1].schema
          /\ conn[1].columns = pre[1].columns

C6_Witness ==
    /\ last.op = "rename_columns"
    /\ Returned
    /\ PlanSchema(conn[1].plan).ok
    /\ Keys(PlanSchema(conn[1].plan).schema) # conn[1].columns

\* C7: a construction that raises FileTypeNotSupported or ExtensionMissmatch
\* yields no connector and never calls the reader; a type or path assignment
\* that raises leaves the connector as it was.
C7_NoPartialUpdate ==
    /\ (/\ last.op = "construct"
        /\ last.raised.cls \in {"FileTypeNotSupported", "ExtensionMissmatch"}) =>
          /\ conn = <<>>
          /\ ~Logged("_reader")
          /\ ~Logged("test_connection=True")
    /\ (last.op \in {"type", "path"} /\ ~Returned) => conn = pre

C7_Witness ==
    /\ last.op = "path"
    /\ conn # <<>>
    /\ last.raised = ExtensionMissmatch
    /\ last.args.path = a_parquet
    /\ conn[1].path = a_csv

\* C8: a construction sets type before it checks path: with an unsupported
\* type it raises FileTypeNotSupported whatever the path is, and it raises
\* ExtensionMissmatch exactly when the type is supported and the path does not
\* end with '.' + the type of that construction.
C8_TypeBeforePath ==
    last.op = "construct" =>
        /\ last.args.type \notin Supported =>
              last.raised.cls = "FileTypeNotSupported" /\ ~Logged("path.setter")
        /\ Logged("path.setter") => LoggedBefore("type.setter", "path.setter")
        /\ last.raised.cls = "ExtensionMissmatch" <=>
              /\ last.args.type \in Supported
              /\ ~EndsWith(last.args.path, Dot(last.args.type))

C8_Witness ==
    /\ last.op = "construct"
    /\ last.args.type = json
    /\ last.args.path = acsv
    /\ last.raised.cls = "FileTypeNotSupported"

\* C9: select_columns, rename_columns and cast return the modified plan, the
\* one get_output returns right after the call.
C9_MutatorsReturnPlan ==
    (last.op \in PlanMutators /\ Returned) =>
        /\ last.ret.kind = "LazyFrame"
        /\ last.ret.plan = <<conn[1].plan>>

====
